---- MODULE Spec2Model ----
(***************************************************************************)
(* Model of main.py: the event-triggered pipeline esl_video_analyzer with  *)
(* its helpers transcribe_video, generate_feedback_report and save_report. *)
(*                                                                         *)
(* Strings are sequences of atoms.  The separator "/" and the line break   *)
(* "\n" are atoms of their own; every other atom stands for a non-empty    *)
(* piece of text that holds neither.  The atoms are chosen prefix-free, so *)
(* two sequences are equal exactly when the strings they spell are equal.  *)
(* A Python value that may be None or unbound is a sequence of length at   *)
(* most one: <<>> is None/unbound, <<v>> is the value v.                    *)
(***************************************************************************)
EXTENDS Integers, Sequences, FiniteSets, TLC

\* ------------------------------------------------------------------ bounds

\* Largest number of '/'-separated segments of an enumerated object path.
MaxSegs == 4
\* Largest number of results in an enumerated transcription response.
MaxResults == 2
\* Number of invocation slots (events delivered by the hosting runtime).
NumInvocations == 2

\* --------------------------------------------------------------- constants

SLASH == "/"
NEWLINE == "\n"
REPORTS_BUCKET_NAME == <<"esl-feedback-reports-cloudgens">>

None == <<>>
Some(v) == <<v>>

\* --------------------------------------------------------- python helpers

\* str.split(sep) from position i on: cur is the segment being read.
RECURSIVE SplitFrom(_, _, _, _)
SplitFrom(s, sep, i, cur) ==
    IF i > Len(s) THEN <<cur>>
    ELSE IF s[i] = sep THEN <<cur>> \o SplitFrom(s, sep, i + 1, <<>>)
    ELSE SplitFrom(s, sep, i + 1, Append(cur, s[i]))

\* file_path.split('/'): always at least one segment, empty segments kept.
Split(s, sep) == SplitFrom(s, sep, 1, <<>>)

\* sep.join(parts)
RECURSIVE Join(_, _)
Join(parts, sep) ==
    IF Len(parts) = 0 THEN <<>>
    ELSE IF Len(parts) = 1 THEN parts[1]
    ELSE parts[1] \o <<sep>> \o Join(Tail(parts), sep)

\* Python truthiness of a str: `not s`.
NotStr(s) == s = <<>>

\* Python truthiness of an Optional[str]: `not x` for None and for "".
NotOptStr(x) == x = None \/ x[1] = <<>>

\* ------------------------------------------------------------------ inputs

Invocations == 1..NumInvocations

\* Buckets whose object-creation notifications trigger the function.
Buckets == {<<"esl-video-uploads">>, <<"esl-video-archive">>}

\* All sequences over S of length 0..n.
SeqsUpTo(S, n) == UNION {[1..k -> S] : k \in 0..n}

\* Segments an enumerated object path is built from ("" included).
Segments == {<<>>, <<"uploads">>, <<"u42">>, <<"lesson1.mp4">>}

\* Every object path of 1..MaxSegs segments drawn from Segments.
Paths == {Join(segs, SLASH) : segs \in SeqsUpTo(Segments, MaxSegs) \ {<<>>}}

\* A recognition result is its list of alternatives, best first.
ResultPool ==
    { << <<"Hello class">>, <<"Hallo glass">> >>,
      << <<"Today we learn colors">> >>,
      << <<>> >> }

\* response.results of the recognition job: an ordered list of results.
Responses == SeqsUpTo(ResultPool, MaxResults)

\* response.text of the generative model: None, "" or Markdown text.
ReportA == <<"## Strengths">>
ReportB == <<"## Strengths", NEWLINE, "## Improvements">>
Texts == {None, Some(<<>>), Some(ReportA), Some(ReportB)}

\* Where transcribe_video can raise: submitting the job, or awaiting it
\* (operation.result(timeout=1800) raises on timeout or job failure).
TranscribeRaiseSites == {"long_running_recognize", "operation.result"}

\* ------------------------------------------------------------------- state

VARIABLES
    pc,               \* stage of each invocation
    bucket_name,      \* data["bucket"]
    file_path,        \* data["name"]
    user_id,          \* parts[1], once bound
    file_name,        \* parts[2], once bound
    results,          \* response.results of the recognition job, once returned
    transcript,       \* return value of transcribe_video, once bound
    feedback_report,  \* return value of generate_feedback_report, once bound
    raised,           \* the call whose exception left the function, or "none"
    calls,            \* external service calls made, in order
    log,              \* lines printed, in order
    reports           \* objects of the reports bucket: key -> object

locals == <<bucket_name, file_path, user_id, file_name, results, transcript,
            feedback_report>>
vars == <<pc, locals, raised, calls, log, reports>>

Init ==
    /\ pc = [i \in Invocations |-> "Idle"]
    /\ bucket_name = [i \in Invocations |-> None]
    /\ file_path = [i \in Invocations |-> None]
    /\ user_id = [i \in Invocations |-> None]
    /\ file_name = [i \in Invocations |-> None]
    /\ results = [i \in Invocations |-> None]
    /\ transcript = [i \in Invocations |-> None]
    /\ feedback_report = [i \in Invocations |-> None]
    /\ raised = [i \in Invocations |-> "none"]
    /\ calls = [i \in Invocations |-> <<>>]
    /\ log = [i \in Invocations |-> <<>>]
    /\ reports = <<>>

\* print(f"...") of invocation i: the format string and its arguments.
Emit(lg, i, fmt, args) ==
    [lg EXCEPT ![i] = Append(@, [fmt |-> fmt, args |-> args])]

\* external call of invocation i: the API and what it was handed.
Call(cs, i, api, arg) ==
    [cs EXCEPT ![i] = Append(@, [api |-> api, arg |-> arg])]

\* ------------------------------------------------------ esl_video_analyzer

\* The hosting runtime delivers an object-creation event to a fresh
\* invocation: data = cloud_event.data, the two reads and the first print.
Receive(i, bucket, path) ==
    /\ pc[i] = "Idle"
    /\ pc' = [pc EXCEPT ![i] = "Received"]
    /\ bucket_name' = [bucket_name EXCEPT ![i] = Some(bucket)]
    /\ file_path' = [file_path EXCEPT ![i] = Some(path)]
    /\ log' = Emit(log, i, "New file detected: gs://{bucket_name}/{file_path}",
                   <<bucket, path>>)
    /\ UNCHANGED <<user_id, file_name, results, transcript, feedback_report,
                   raised, calls, reports>>

\* Mutant: the test of the first segment is left out.
InvalidPath_LengthOnly(parts) == Len(parts) < 3

\* Mutant: `and` written for `or`.
InvalidPath_And(parts) == Len(parts) < 3 /\ ~(parts[1] = <<"uploads">>)

\* if len(parts) < 3 or not parts[0] == "uploads"
InvalidPath(parts) == Len(parts) < 3 \/ ~(parts[1] = <<"uploads">>)

\* The try block that binds user_id and file_name.  Past the format test
\* parts[1] and parts[2] exist; the except IndexError handler is kept for a
\* parts list that is too short all the same.
ParsePath(i) ==
    /\ pc[i] = "Received"
    /\ LET path == file_path[i][1]
           parts == Split(path, SLASH)
       IN  IF InvalidPath(parts)
           THEN /\ pc' = [pc EXCEPT ![i] = "Aborted"]
                /\ log' = Emit(log, i,
                     "File path '{file_path}' is not in the expected 'uploads/userID/filename' format. Aborting.",
                     <<path>>)
                /\ UNCHANGED <<user_id, file_name>>
           ELSE IF Len(parts) < 3
           THEN /\ pc' = [pc EXCEPT ![i] = "Aborted"]
                /\ user_id' = IF Len(parts) >= 2
                              THEN [user_id EXCEPT ![i] = Some(parts[2])]
                              ELSE user_id
                /\ log' = Emit(log, i,
                     "File path '{file_path}' is not in the expected format 'uploads/userID/filename'. Aborting.",
                     <<path>>)
                /\ UNCHANGED file_name
           ELSE /\ pc' = [pc EXCEPT ![i] = "Parsed"]
                /\ user_id' = [user_id EXCEPT ![i] = Some(parts[2])]
                /\ file_name' = [file_name EXCEPT ![i] = Some(parts[3])]
                /\ log' = Emit(log, i,
                     "Processing file: '{file_name}' for user: '{user_id}'.",
                     <<parts[3], parts[2]>>)
    /\ UNCHANGED <<bucket_name, file_path, results, transcript,
                   feedback_report, raised, calls, reports>>

\* gcs_uri = f"gs://{bucket_name}/{file_path}"
GcsUri(bucket, path) == <<"gs://">> \o bucket \o <<SLASH>> \o path

\* [result.alternatives[0].transcript for result in response.results]
TranscriptParts(res) == [k \in 1..Len(res) |-> res[k][1]]

\* transcribe_video's return value for a job that completed with `res`.
TranscriptOf(res) == Join(TranscriptParts(res), NEWLINE)

\* Mutant: `if transcript is None`, which a str never is.
TranscriptMissing_IsNone(t) == FALSE

\* if not transcript
TranscriptMissing(t) == NotStr(t)

\* Step 1 with a recognition job that completes: transcribe_video(gcs_uri)
\* returns, then the test of the transcript.
TranscribeVideo(i, res) ==
    /\ pc[i] = "Parsed"
    /\ LET t == TranscriptOf(res)
           waited == Emit(log, i, "Waiting for transcription to complete...", <<>>)
       IN  /\ calls' = Call(calls, i, "speech.long_running_recognize",
                            GcsUri(bucket_name[i][1], file_path[i][1]))
           /\ results' = [results EXCEPT ![i] = Some(res)]
           /\ transcript' = [transcript EXCEPT ![i] = Some(t)]
           /\ IF TranscriptMissing(t)
              THEN /\ pc' = [pc EXCEPT ![i] = "Aborted"]
                   /\ log' = Emit(waited, i,
                        "Could not transcribe video for user {user_id}. Aborting.",
                        <<user_id[i][1]>>)
              ELSE /\ pc' = [pc EXCEPT ![i] = "Transcribed"]
                   /\ log' = Emit(waited, i,
                        "Successfully transcribed video for user {user_id}.",
                        <<user_id[i][1]>>)
    /\ UNCHANGED <<bucket_name, file_path, user_id, file_name,
                   feedback_report, raised, reports>>

\* Step 1 with a recognition job that fails or times out: the exception is
\* caught nowhere and leaves esl_video_analyzer.
TranscribeVideoRaises(i, site) ==
    /\ pc[i] = "Parsed"
    /\ calls' = Call(calls, i, "speech.long_running_recognize",
                     GcsUri(bucket_name[i][1], file_path[i][1]))
    /\ log' = IF site = "operation.result"
              THEN Emit(log, i, "Waiting for transcription to complete...", <<>>)
              ELSE log
    /\ raised' = [raised EXCEPT ![i] = site]
    /\ pc' = [pc EXCEPT ![i] = "Aborted"]
    /\ UNCHANGED <<locals, reports>>

\* The f-string prompt: fixed instructions around the transcript.
Prompt(t) ==
    <<"You are an expert ESL teaching coach. [...] ---", NEWLINE>> \o t
        \o <<NEWLINE, "--- Please generate the feedback report now in Markdown format.">>

\* Mutant: `if feedback_report is None`, which lets "" through.
ReportMissing_IsNone(r) == r = None

\* if not feedback_report
ReportMissing(r) == NotOptStr(r)

\* Step 2 with a model call that returns: generate_feedback_report returns
\* response.text, then the test of the report.
GenerateFeedbackReport(i, text) ==
    /\ pc[i] = "Transcribed"
    /\ calls' = Call(calls, i, "model.generate_content", Prompt(transcript[i][1]))
    /\ feedback_report' = [feedback_report EXCEPT ![i] = text]
    /\ IF ReportMissing(text)
       THEN /\ pc' = [pc EXCEPT ![i] = "Aborted"]
            /\ log' = Emit(log, i,
                 "Could not generate report for user {user_id}. Aborting.",
                 <<user_id[i][1]>>)
       ELSE /\ pc' = [pc EXCEPT ![i] = "ReportGenerated"]
            /\ log' = Emit(log, i,
                 "Successfully generated report for user {user_id}.",
                 <<user_id[i][1]>>)
    /\ UNCHANGED <<bucket_name, file_path, user_id, file_name, results,
                   transcript, raised, reports>>

\* Mutant: the exception of the model call is swallowed and the pipeline
\* goes on to the write stage with no report.
GenerateFeedbackReportRaises_Swallowed(i) ==
    /\ pc[i] = "Transcribed"
    /\ calls' = Call(calls, i, "model.generate_content", Prompt(transcript[i][1]))
    /\ pc' = [pc EXCEPT ![i] = "ReportGenerated"]
    /\ UNCHANGED <<locals, raised, log, reports>>

\* Step 2 with a model call that raises.
GenerateFeedbackReportRaises(i) ==
    /\ pc[i] = "Transcribed"
    /\ calls' = Call(calls, i, "model.generate_content", Prompt(transcript[i][1]))
    /\ raised' = [raised EXCEPT ![i] = "model.generate_content"]
    /\ pc' = [pc EXCEPT ![i] = "Aborted"]
    /\ UNCHANGED <<locals, log, reports>>

\* Mutant: the ".txt" suffix is left off.
ReportFileName_NoSuffix(uid, original_file_name) ==
    <<"reports", SLASH>> \o uid \o <<SLASH, "feedback-for-">> \o original_file_name

\* Mutant: every user's reports go to one shared folder.
ReportFileName_NoUserFolder(uid, original_file_name) ==
    <<"reports", SLASH, "feedback-for-">> \o original_file_name \o <<".txt">>

\* report_file_name = f"reports/{user_id}/feedback-for-{original_file_name}.txt"
ReportFileName(uid, original_file_name) ==
    <<"reports", SLASH>> \o uid \o <<SLASH, "feedback-for-">>
        \o original_file_name \o <<".txt">>

\* Mutant: an existing object is appended to instead of replaced.
UploadFromString_Append(objects, key, report_text) ==
    [k \in DOMAIN objects \cup {key} |->
        IF k = key
        THEN [data |-> IF key \in DOMAIN objects
                       THEN objects[key].data \o report_text
                       ELSE report_text,
              content_type |-> "text/plain; charset=utf-8"]
        ELSE objects[k]]

\* blob.upload_from_string(report_text, content_type=...): the object at
\* `key` is created or replaced, every other object is left alone.
UploadFromString(objects, key, report_text) ==
    [k \in DOMAIN objects \cup {key} |->
        IF k = key
        THEN [data |-> report_text, content_type |-> "text/plain; charset=utf-8"]
        ELSE objects[k]]

\* Step 3 with a write that succeeds: save_report up to its print.
SaveReport(i) ==
    /\ pc[i] = "ReportGenerated"
    /\ LET key == ReportFileName(user_id[i][1], file_name[i][1])
       IN  /\ calls' = Call(calls, i, "blob.upload_from_string",
                            <<key, feedback_report[i][1]>>)
           /\ reports' = UploadFromString(reports, key, feedback_report[i][1])
           /\ log' = Emit(log, i,
                "Report saved to gs://{REPORTS_BUCKET_NAME}/{report_file_name}",
                <<REPORTS_BUCKET_NAME, key>>)
    /\ pc' = [pc EXCEPT ![i] = "Saved"]
    /\ UNCHANGED <<locals, raised>>

\* Step 3 with a write that raises: nothing is stored.
SaveReportRaises(i) ==
    /\ pc[i] = "ReportGenerated"
    /\ calls' = Call(calls, i, "blob.upload_from_string",
                     <<ReportFileName(user_id[i][1], file_name[i][1]),
                       feedback_report[i][1]>>)
    /\ raised' = [raised EXCEPT ![i] = "blob.upload_from_string"]
    /\ pc' = [pc EXCEPT ![i] = "Aborted"]
    /\ UNCHANGED <<locals, log, reports>>

\* The last print of esl_video_analyzer and its return.
Complete(i) ==
    /\ pc[i] = "Saved"
    /\ pc' = [pc EXCEPT ![i] = "Done"]
    /\ log' = Emit(log, i, "Process complete for '{file_name}' for user '{user_id}'.",
                   <<file_name[i][1], user_id[i][1]>>)
    /\ UNCHANGED <<locals, raised, calls, reports>>

\* ---------------------------------------------------------- specifications

\* The steps of a running invocation i, its services answering from R and T.
Run(i, R, T) ==
    \/ ParsePath(i)
    \/ \E res \in R : TranscribeVideo(i, res)
    \/ \E site \in TranscribeRaiseSites : TranscribeVideoRaises(i, site)
    \/ \E text \in T : GenerateFeedbackReport(i, text)
    \/ GenerateFeedbackReportRaises(i)
    \/ SaveReport(i)
    \/ SaveReportRaises(i)
    \/ Complete(i)

\* An event for an object of one of the buckets B, its path among P, reaches
\* invocation i, which has not been started yet.
Trigger(i, B, P) ==
    /\ pc[i] = "Idle"
    /\ \E b \in B, p \in P : Receive(i, b, p)

\* One invocation, every enumerated path and service answer.
Solo == {1}

Next ==
    \E i \in Solo :
        \/ Trigger(i, Buckets, Paths)
        \/ Run(i, Responses, Texts)

Spec == Init /\ [][Next]_vars

\* Each service call returns or raises, and the interpreter keeps running
\* a started invocation: its next step is eventually taken.
FairSpec == Spec /\ \A i \in Solo : WF_vars(Run(i, Responses, Texts))

\* Concurrent invocations triggered from one bucket, over a few paths that
\* share or nearly share their user folder and file name.
ConcBuckets == {<<"esl-video-uploads">>}
ConcPaths ==
    { Join(<< <<"uploads">>, <<"u42">>, <<"lesson1.mp4">> >>, SLASH),
      Join(<< <<"uploads">>, <<"u42">>, <<"lesson1.mp4">>, <<"u42">> >>, SLASH),
      Join(<< <<"uploads">>, <<"lesson1.mp4">>, <<"u42">> >>, SLASH),
      Join(<< <<"u42">>, <<"lesson1.mp4">> >>, SLASH) }
ConcResponses == {<<>>, << << <<"Hello class">>, <<"Hallo glass">> >> >>}
ConcTexts == {Some(<<>>), Some(ReportA), Some(ReportB)}

ConcNext ==
    \E i \in Invocations :
        \/ Trigger(i, ConcBuckets, ConcPaths)
        \/ Run(i, ConcResponses, ConcTexts)

ConcSpec == Init /\ [][ConcNext]_vars

\* ------------------------------------------- vocabulary of the properties

\* The object path of invocation i, read off the event and not off the parser.
PathOf(i) == file_path[i][1]

\* Number of '/' in p; p has SlashCount(p) + 1 segments.
SlashCount(p) == Cardinality({k \in 1..Len(p) : p[k] = SLASH})
SegCount(p) == SlashCount(p) + 1

\* Position of the n-th '/' of p; 0 for n = 0, Len(p) + 1 past the last one.
NthSlash(p, n) ==
    IF n = 0 THEN 0
    ELSE IF n > SlashCount(p) THEN Len(p) + 1
    ELSE CHOOSE k \in 1..Len(p) :
            /\ p[k] = SLASH
            /\ Cardinality({j \in 1..k : p[j] = SLASH}) = n

\* Segment n of p, counted from 0 as in the source: the text between the
\* n-th and the (n+1)-th '/'.
Segment(p, n) == SubSeq(p, NthSlash(p, n) + 1, NthSlash(p, n + 1) - 1)

\* The path is not of the form uploads/<userId>/<fileName>[/...].
Malformed(p) == SegCount(p) < 3 \/ Segment(p, 0) # <<"uploads">>

\* The parsing step of invocation i has run.
PastParse(i) == pc[i] \notin {"Idle", "Received"}

\* Number of calls invocation i made to `api`.
NumCalls(i, api) == Cardinality({k \in 1..Len(calls[i]) : calls[i][k].api = api})

\* Invocation i ended, by a return or by an exception, short of Done.
Aborted(i) == pc[i] = "Aborted"

\* C1: once the parsing step has run, the invocation was aborted by it (a
\* return before any call) exactly when the path has fewer
\* than 3 segments or a first segment other than "uploads"; otherwise
\* user_id is segment 1 and file_name is segment 2, whatever follows.
C1_PathParsing ==
    \A i \in Invocations :
        PastParse(i) =>
            LET p == PathOf(i)
                rejected == Aborted(i) /\ calls[i] = <<>> /\ raised[i] = "none"
            IN  /\ rejected <=> Malformed(p)
                /\ ~Malformed(p) =>
                      /\ user_id[i] = Some(Segment(p, 1))
                      /\ file_name[i] = Some(Segment(p, 2))

\* A path of four segments was accepted and its fourth segment dropped.
C1_Witness ==
    \E i \in Invocations :
        /\ pc[i] = "Parsed"
        /\ SegCount(PathOf(i)) = 4
        /\ Segment(PathOf(i), 3) # <<>>
        /\ user_id[i] = Some(<<"u42">>)
        /\ file_name[i] = Some(<<"lesson1.mp4">>)

\* C2: an invocation whose path is malformed ends aborted by a plain return
\* of the parsing step: nothing raised, no service called, nothing stored.
C2_MalformedPathNoSideEffects ==
    \A i \in Invocations :
        (PastParse(i) /\ Malformed(PathOf(i))) =>
            /\ Aborted(i)
            /\ raised[i] = "none"
            /\ NumCalls(i, "speech.long_running_recognize") = 0
            /\ NumCalls(i, "model.generate_content") = 0
            /\ NumCalls(i, "blob.upload_from_string") = 0
            /\ Len(calls[i]) = 0
            /\ DOMAIN reports = {}

\* The path u42/lesson1.mp4 (no uploads prefix) was received and aborted.
C2_Witness ==
    \E i \in Invocations :
        /\ Aborted(i)
        /\ PathOf(i) = <<"u42", SLASH, "lesson1.mp4">>
        /\ calls[i] = <<>>

\* C3: when the recognition job returns an empty result list the transcript
\* is the empty string and the invocation aborts with no generation call
\* and no storage write.
C3_EmptyTranscriptionAborts ==
    \A i \in Invocations :
        results[i] = Some(<<>>) =>
            /\ ~Malformed(PathOf(i))
            /\ transcript[i] = Some(<<>>)
            /\ Aborted(i)
            /\ NumCalls(i, "model.generate_content") = 0
            /\ NumCalls(i, "blob.upload_from_string") = 0
            /\ DOMAIN reports = {}

\* The job for a well-formed path returned no result.
C3_Witness ==
    \E i \in Invocations :
        /\ results[i] = Some(<<>>)
        /\ NumCalls(i, "speech.long_running_recognize") = 1
        /\ Aborted(i)

\* The generation call of invocation i returned (it did not raise).
GenerationReturned(i) ==
    /\ NumCalls(i, "model.generate_content") = 1
    /\ raised[i] # "model.generate_content"

\* C4: when the generation call returns an empty or absent text the
\* invocation aborts and makes no storage write: no object is created or
\* replaced.
C4_EmptyReportAborts ==
    \A i \in Invocations :
        (GenerationReturned(i) /\ feedback_report[i] \in {None, Some(<<>>)}) =>
            /\ Aborted(i)
            /\ NumCalls(i, "blob.upload_from_string") = 0
            /\ DOMAIN reports = {}

\* The model returned no text at all, after a non-empty transcript.
C4_Witness ==
    \E i \in Invocations :
        /\ GenerationReturned(i)
        /\ feedback_report[i] = None
        /\ transcript[i] # None /\ transcript[i][1] # <<>>
        /\ Aborted(i)

\* The APIs invocation i called, in the order of the calls.
Apis(i) == [k \in 1..Len(calls[i]) |-> calls[i][k].api]

\* The only orders of calls the pipeline allows: each service at most once,
\* transcription before generation before the storage write.
CallOrders ==
    { <<>>,
      <<"speech.long_running_recognize">>,
      <<"speech.long_running_recognize", "model.generate_content">>,
      <<"speech.long_running_recognize", "model.generate_content",
        "blob.upload_from_string">> }

\* The stage changes of the linear state machine and its short-circuits.
StageMoves ==
    { <<"Idle", "Received">>, <<"Received", "Parsed">>,
      <<"Parsed", "Transcribed">>, <<"Transcribed", "ReportGenerated">>,
      <<"ReportGenerated", "Saved">>, <<"Saved", "Done">>,
      <<"Received", "Aborted">>, <<"Parsed", "Aborted">>,
      <<"Transcribed", "Aborted">>, <<"ReportGenerated", "Aborted">> }

\* What each stage has behind it.
C5_StageInvariant ==
    \A i \in Invocations :
        /\ Apis(i) \in CallOrders
        /\ NumCalls(i, "speech.long_running_recognize") > 0 =>
              PastParse(i) /\ ~Malformed(PathOf(i))
        /\ NumCalls(i, "model.generate_content") > 0 =>
              /\ results[i] # None
              /\ transcript[i] # None /\ transcript[i][1] # <<>>
        /\ NumCalls(i, "blob.upload_from_string") > 0 =>
              /\ GenerationReturned(i)
              /\ feedback_report[i] # None /\ feedback_report[i][1] # <<>>
        /\ pc[i] \in {"Idle", "Received", "Parsed"} => Len(calls[i]) = 0
        /\ pc[i] = "Transcribed" => Len(calls[i]) = 1
        /\ pc[i] = "ReportGenerated" => Len(calls[i]) = 2
        /\ pc[i] \in {"Transcribed", "ReportGenerated", "Saved", "Done"} =>
              transcript[i] # None /\ transcript[i][1] # <<>>
        /\ pc[i] \in {"ReportGenerated", "Saved", "Done"} =>
              feedback_report[i] # None /\ feedback_report[i][1] # <<>>
        /\ pc[i] \in {"Saved", "Done"} => Len(calls[i]) = 3
        /\ (Aborted(i) /\ NumCalls(i, "blob.upload_from_string") > 0) =>
              raised[i] = "blob.upload_from_string"

\* Every step moves a stage along StageMoves, and a finished invocation
\* (Done or Aborted) is never touched again: no call, no line, no write.
C5_StageStep ==
    \A i \in Invocations :
        /\ pc'[i] # pc[i] => <<pc[i], pc'[i]>> \in StageMoves
        /\ pc[i] \in {"Done", "Aborted"} =>
              /\ pc'[i] = pc[i]
              /\ calls'[i] = calls[i]
              /\ log'[i] = log[i]
              /\ raised'[i] = raised[i]
        /\ (pc[i] # "Aborted" /\ pc'[i] = "Aborted") => reports' = reports
        /\ reports' # reports => \E j \in Invocations :
              pc[j] = "ReportGenerated" /\ pc'[j] = "Saved"

\* C5: the stages run only in the order Received, Parsed, Transcribed,
\* ReportGenerated, Saved, Done; each service is called at most once and
\* only after the stage before it succeeded; a failure moves straight to
\* Aborted, which like Done is final; and with every service call returning
\* or raising, a received event reaches Done or Aborted.
C5_LinearPipeline ==
    /\ []C5_StageInvariant
    /\ [][C5_StageStep]_vars
    /\ \A i \in Solo : (pc[i] = "Received") ~> (pc[i] \in {"Done", "Aborted"})

\* An invocation came through every stage and wrote its report.
C5_Witness ==
    \E i \in Invocations :
        /\ pc[i] = "Done"
        /\ Apis(i) = <<"speech.long_running_recognize", "model.generate_content",
                       "blob.upload_from_string">>
        /\ DOMAIN reports # {}

\* ------------------------------------------------------------ error kinds

\* The lines the pipeline prints when it gives up.
AbortingLines ==
    { "File path '{file_path}' is not in the expected 'uploads/userID/filename' format. Aborting.",
      "File path '{file_path}' is not in the expected format 'uploads/userID/filename'. Aborting.",
      "Could not transcribe video for user {user_id}. Aborting.",
      "Could not generate report for user {user_id}. Aborting." }

\* The last line of invocation i is a diagnostic naming its file or user.
DiagnosticLogged(i) ==
    /\ Len(log[i]) > 0
    /\ LET last == log[i][Len(log[i])]
       IN  /\ last.fmt \in AbortingLines
           /\ \/ last.args = <<PathOf(i)>>
              \/ user_id[i] # None /\ last.args = <<user_id[i][1]>>

\* One of the four error kinds has happened to invocation i.
MalformedPathError(i) == PastParse(i) /\ Malformed(PathOf(i))
TranscriptionError(i) ==
    \/ raised[i] \in TranscribeRaiseSites
    \/ transcript[i] = Some(<<>>)
GenerationError(i) ==
    \/ raised[i] = "model.generate_content"
    \/ GenerationReturned(i) /\ feedback_report[i] \in {None, Some(<<>>)}
StorageWriteError(i) == raised[i] = "blob.upload_from_string"

\* C6: each of the four error kinds (malformed path; transcription error,
\* timeout or empty result; generation error or empty result; storage-write
\* error) ends the invocation the same way: a diagnostic naming the file or
\* user is logged and the rest of the pipeline is aborted.
C6_ErrorsHandledIdentically ==
    \A i \in Invocations :
        (\/ MalformedPathError(i)
         \/ TranscriptionError(i)
         \/ GenerationError(i)
         \/ StorageWriteError(i)) =>
            /\ Aborted(i)
            /\ DiagnosticLogged(i)

\* ------------------------------------------------------------ report writer

\* reports/<userId>/feedback-for-<fileName>.txt, spelt out.
Destination(uid, name) ==
    <<"reports", "/">> \o uid \o <<"/", "feedback-for-">> \o name \o <<".txt">>

\* The step is the successful storage write of invocation i.
Saves(i) == pc[i] = "ReportGenerated" /\ pc'[i] = "Saved"

\* C7: the write stage stores exactly one object: at key
\* reports/<userId>/feedback-for-<fileName>.txt, with <userId> and <fileName>
\* segments 1 and 2 of the object path, holding exactly the text the
\* generation service returned; every other object is left as it was, and
\* an invocation that has saved has made exactly one storage call.
C7_SaveStep ==
    \A i \in Invocations :
        Saves(i) =>
            LET key == Destination(Segment(PathOf(i), 1), Segment(PathOf(i), 2))
            IN  /\ DOMAIN reports' = DOMAIN reports \cup {key}
                /\ reports'[key].data = feedback_report[i][1]
                /\ reports'[key].content_type = "text/plain; charset=utf-8"
                /\ \A k \in DOMAIN reports \ {key} : reports'[k] = reports[k]
                /\ NumCalls(i, "blob.upload_from_string")' = 1
                /\ calls'[i][Len(calls'[i])].arg = <<key, feedback_report[i][1]>>
                /\ PathOf(i) = <<"uploads", "/", "u42", "/", "lesson1.mp4">> =>
                      key = <<"reports", "/", "u42", "/", "feedback-for-",
                              "lesson1.mp4", ".txt">>

C7_ReportDestination == [][C7_SaveStep]_vars

\* uploads/u42/lesson1.mp4 was processed and its report is in the bucket.
C7_Witness ==
    \E i \in Invocations :
        /\ pc[i] = "Saved"
        /\ PathOf(i) = <<"uploads", "/", "u42", "/", "lesson1.mp4">>
        /\ DOMAIN reports = {<<"reports", "/", "u42", "/", "feedback-for-",
                               "lesson1.mp4", ".txt">>}
        /\ reports[<<"reports", "/", "u42", "/", "feedback-for-",
                     "lesson1.mp4", ".txt">>].data = ReportB

\* ------------------------------------------------- re-runs and concurrency

\* Invocation i has stored its report.
HasSaved(i) == pc[i] \in {"Saved", "Done"}

\* The storage call of an invocation that made one: <<key, text>>.
Written(i) == calls[i][3].arg

\* j is a re-run of i: the same upload path, and both services answered j
\* as they answered i.
SameRun(i, j) ==
    /\ file_path[i] = file_path[j]
    /\ results[i] = results[j]
    /\ feedback_report[i] = feedback_report[j]

\* Two finished runs of the same upload wrote the same text to the same key.
C8_SameDestination ==
    \A i, j \in Invocations :
        (i # j /\ HasSaved(i) /\ HasSaved(j) /\ SameRun(i, j)) =>
            Written(i) = Written(j)

\* The write of a re-run whose earlier run's report is still the object at
\* the key leaves the bucket exactly as the earlier run left it.
C8_SecondWriteChangesNothing ==
    \A j \in Invocations :
        (/\ Saves(j)
         /\ \E i \in Invocations \ {j} :
               /\ HasSaved(i) /\ SameRun(i, j)
               /\ Written(i)[1] \in DOMAIN reports
               /\ reports[Written(i)[1]].data = Written(i)[2]) =>
            reports' = reports

\* C8: running the pipeline twice on the same upload path with identical
\* service responses writes the same text to the same destination both
\* times, and the second write leaves the reports bucket in the state the
\* first one left: the report is replaced by equal content and no other
\* object appears.
C8_Idempotence == []C8_SameDestination /\ [][C8_SecondWriteChangesNothing]_vars

\* Two runs of the same upload with the same answers have both saved.
C8_Witness ==
    \E i, j \in Invocations :
        /\ i # j /\ HasSaved(i) /\ HasSaved(j) /\ SameRun(i, j)
        /\ Cardinality(DOMAIN reports) = 1
        /\ reports[Written(j)[1]].data = Written(j)[2]

\* The report key scoped to invocation i's own parsed user and file.
OwnKey(i) == Destination(user_id[i][1], file_name[i][1])

\* Some object of the bucket is created, replaced or removed by the step.
Touched(k) ==
    \/ k \in DOMAIN reports /\ k \notin DOMAIN reports'
    \/ k \notin DOMAIN reports /\ k \in DOMAIN reports'
    \/ k \in DOMAIN reports /\ k \in DOMAIN reports' /\ reports'[k] # reports[k]

\* Invocation i takes the step.
Moves(i) == pc'[i] # pc[i]

\* A step of invocation i leaves every other invocation as it was, touches
\* no object but the one at its own key, and what it stores there is its
\* own report whatever the bucket held before.
C9_Step ==
    \A i \in Invocations :
        Moves(i) =>
            /\ \A j \in Invocations \ {i} :
                  /\ pc'[j] = pc[j]
                  /\ bucket_name'[j] = bucket_name[j]
                  /\ file_path'[j] = file_path[j]
                  /\ user_id'[j] = user_id[j]
                  /\ file_name'[j] = file_name[j]
                  /\ results'[j] = results[j]
                  /\ transcript'[j] = transcript[j]
                  /\ feedback_report'[j] = feedback_report[j]
                  /\ raised'[j] = raised[j]
                  /\ calls'[j] = calls[j]
                  /\ log'[j] = log[j]
            /\ \A k \in DOMAIN reports \cup DOMAIN reports' :
                  Touched(k) => Saves(i) /\ k = OwnKey(i)
            /\ Saves(i) =>
                  /\ OwnKey(i) \in DOMAIN reports'
                  /\ reports'[OwnKey(i)].data = feedback_report[i][1]

\* C9: in every interleaving of concurrent invocations each invocation
\* writes only the report object at reports/<its userId>/feedback-for-<its
\* fileName>.txt, creates or modifies no other object, and neither reads nor
\* changes what another invocation produced.
C9_Isolation == [][C9_Step]_vars

\* Two invocations for different users have each stored their own report
\* while the other was running.
C9_Witness ==
    \E i, j \in Invocations :
        /\ HasSaved(i) /\ HasSaved(j)
        /\ user_id[i] # user_id[j]
        /\ DOMAIN reports = {OwnKey(i), OwnKey(j)}
        /\ OwnKey(i) # OwnKey(j)

\* The uploaded object an invocation was triggered by.
Upload(i) == <<bucket_name[i], file_path[i]>>

\* C10: two invocations triggered by different uploaded objects (another
\* bucket or another object path), both accepted by the parser, never write
\* to the same report key.
C10_DestinationInjective ==
    \A i, j \in Invocations :
        (HasSaved(i) /\ HasSaved(j) /\ Upload(i) # Upload(j)) =>
            Written(i)[1] # Written(j)[1]

====
